---- MODULE Spec2Model ----
(***************************************************************************)
(* Authentication, session and rate-limiting core of the lwie dashboard    *)
(* backend: the session manager (utils/sessionManager.js), the bearer      *)
(* middleware (middleware/auth.js), the auth routes (routes/auth.js,       *)
(* routes/manager-auth.js), the socket handshake (middleware/socketAuth.js),*)
(* the Redis rate limiter (middleware/rateLimiter.js), the authorization   *)
(* predicates with the user administration routes (routes/users.js) and    *)
(* the audit pipeline (utils/auditLogger.js), the password-reset request,  *)
(* the hourly cleanup job and the API keys (routes/apiKeys.js with the     *)
(* apiKeyAuth middleware).                                                 *)
(*                                                                         *)
(* Time is in seconds.  A JWT is modelled by the fields that decide its    *)
(* string: the secret it is signed with, its payload and its iat/exp.      *)
(* A Redis key with an expiry is visible while now < its expiry.           *)
(***************************************************************************)
EXTENDS Integers, Sequences, FiniteSets, TLC

VARIABLES
    now,             \* wall clock, seconds
    users,           \* users table: id -> row
    cache,           \* Redis keys session:<token> -> [data, exp]
    refresh_tokens,  \* refresh_tokens table: set of rows
    handed,          \* tokens that have been returned to a client
    invalidated,     \* access tokens whose session key was explicitly deleted
    rl,              \* Redis key rl:login:<ip> -> [count, exp], or Null
    req,             \* rate limiter: each in-flight request's position
    last,            \* rate limiter: outcome of each client's last request
    mon,             \* rate limiter: fixed-window observers of the request stream
    nreq,            \* rate limiter: requests started so far
    audit_logs,      \* audit_logs table: the row with id i is audit_logs[i]
    notifications,   \* Redis list admin:notifications, newest entry first
    published,       \* messages published on the channel admin:notifications
    calls,           \* createAuditLog invocations: position and result of each
    password_reset_tokens, \* password_reset_tokens table: set of rows
    api_keys,        \* api_keys table: set of rows
    apikey,          \* Redis keys apikey:<key> -> [data, exp]
    usage,           \* Redis hashes apikey:usage:<key> -> count
    inflight         \* requests between two awaits: position and what they hold

vars == <<now, users, cache, refresh_tokens, handed, invalidated,
          rl, req, last, mon, nreq,
          audit_logs, notifications, published, calls,
          password_reset_tokens, api_keys, apikey, usage, inflight>>

sessionVars == <<users, cache, refresh_tokens, handed, invalidated>>
limiterVars == <<rl, req, last, mon, nreq>>
auditVars == <<audit_logs, notifications, published, calls>>
keyVars == <<password_reset_tokens, api_keys, apikey, usage, inflight>>

\* null / undefined, a value unequal to every record the program builds
Null == [null |-> TRUE]

----------------------------------------------------------------------------
(* Bounds of the model *)

\* the session clock advances in steps of this many seconds
TickStep == 450
\* the session clock stops here
MaxClock == 900
\* at most this many access tokens are handed out
MaxAccess == 2
\* requests of one client address that can be in flight at once
NumClients == 2
\* requests the rate limiter sees in one run
MaxRequests == 7
\* the rate limiter's clock advances in steps of this many seconds
RlTickStep == 100
\* the rate limiter's clock stops here
RlMaxClock == 400
\* the ledger clock advances in steps of this many seconds (three and a half days)
DayStep == 302400
\* the ledger clock stops here
MaxDayClock == 907200
\* createAuditLog is invoked at most this many times in one run
MaxCalls == 2
\* significant events recorded before the run starts
Prefill == 99
\* password-reset requests that reach the INSERT in one run
MaxResets == 1
\* refresh requests that are taken through their awaits one step at a time
MaxInflight == 2
\* API keys created in one run
MaxKeys == 1
\* requests that present or manage an API key in one run
MaxKeyRequests == 2

----------------------------------------------------------------------------
(* Program constants *)

\* expiresIn: "15m" of the access token
AccessTtl == 900
\* { EX: 900 } of the session key
SessionEx == 900
\* expiresIn: "7d" of the refresh token, INTERVAL '7 days' of its row
RefreshTtl == 604800
\* expiresIn: "1h" of the password-reset token, INTERVAL '1 hour' of its row
ResetTtl == 3600
\* "EX", 3600 of the apikey:<key> entry
ApiKeyEx == 3600
\* expire(`apikey:usage:${apiKey}`, 86400)
UsageEx == 86400
\* expiresIn = 365 days, the default lifetime of an API key
ApiKeyTtl == 31536000
\* the stop index of ltrim("admin:notifications", 0, 99)
TrimStop == 99

\* mutant: a one-minute login window
LoginWindowMsShort == 60 * 1000

\* loginRateLimiter: windowMs
LoginWindowMs == 300000
\* loginRateLimiter: max
LoginMax == 5

UserIds == {1, 2}

\* the rows seedDatabase inserts first: the admin and the manager
SeedRole(u) == IF u = 1 THEN "admin" ELSE "manager"

SeedUsers == [u \in UserIds |->
                [role |-> SeedRole(u), is_active |-> TRUE, is_approved |-> TRUE]]

----------------------------------------------------------------------------
(* Credential signer: jsonwebtoken *)

NoRole == "none"

\* jwt.sign(payload, secret, { expiresIn }) at time t
JwtSign(userId, role, secret, ttl, t) ==
    [secret |-> secret, userId |-> userId, role |-> role, iat |-> t, exp |-> t + ttl]

\* mutant: the signature is not checked against the secret
JwtVerifyAnySecret(token, secret, t) == t < token.exp

\* jwt.verify(token, secret): TRUE when it returns the payload, FALSE when it throws
JwtVerify(token, secret, t) ==
    /\ token.secret = secret
    /\ t < token.exp

----------------------------------------------------------------------------
(* Session cache: Redis keys session:<token> *)

\* redisClient.get(`session:${token}`)
CacheGet(c, token, t) ==
    IF token \in DOMAIN c /\ t < c[token].exp THEN c[token].data ELSE Null

\* redisClient.set(`session:${token}`, JSON.stringify(data), EX ex)
CacheSet(c, token, data, ex, t) ==
    [k \in DOMAIN c \cup {token} |->
        IF k = token THEN [data |-> data, exp |-> t + ex] ELSE c[k]]

\* redisClient.del(`session:${token}`)
CacheDel(c, token) == [k \in DOMAIN c \ {token} |-> c[k]]

\* keys whose expiry has passed are gone
CachePurge(c, t) == [k \in {x \in DOMAIN c : t < c[x].exp} |-> c[k]]

----------------------------------------------------------------------------
(* Session manager *)

\* the additionalData every caller of createSession passes, read from the users row
Profile(u) == [email |-> u, firstName |-> u, lastName |-> u, mfaEnabled |-> FALSE]

\* mutant: the record is stored without its userId
SessionRecordNoUserId(userId, role, extra) ==
    [role |-> role, email |-> extra.email,
     firstName |-> extra.firstName, lastName |-> extra.lastName,
     mfaEnabled |-> extra.mfaEnabled]

\* JSON.stringify({ userId, role, ...additionalData })
SessionRecord(userId, role, extra) ==
    [userId |-> userId, role |-> role, email |-> extra.email,
     firstName |-> extra.firstName, lastName |-> extra.lastName,
     mfaEnabled |-> extra.mfaEnabled]

\* sessionManager.createSession: the two tokens and the cache after the set
CreateSession(c, userId, role, extra, t) ==
    LET accessToken == JwtSign(userId, NoRole, "JWT_SECRET", AccessTtl, t)
        refreshToken == JwtSign(userId, NoRole, "JWT_REFRESH_SECRET", RefreshTtl, t)
    IN  [accessToken |-> accessToken,
         refreshToken |-> refreshToken,
         cache |-> CacheSet(c, accessToken, SessionRecord(userId, role, extra), SessionEx, t)]

\* mutant: a cache read that fails is treated as a miss, the JWT decides
ValidateSessionReadFailureIsMiss(c, token, redisOk, t) ==
    IF ~redisOk \/ CacheGet(c, token, t) = Null
    THEN IF JwtVerify(token, "JWT_SECRET", t)
         THEN [userId |-> token.userId]
         ELSE Null
    ELSE CacheGet(c, token, t)

\* sessionManager.validateSession: the record, or Null
ValidateSession(c, token, redisOk, t) ==
    IF ~redisOk THEN Null
    ELSE IF CacheGet(c, token, t) = Null
         THEN IF JwtVerify(token, "JWT_SECRET", t)
              THEN [userId |-> token.userId]
              ELSE Null
         ELSE CacheGet(c, token, t)

\* sessionManager.invalidateSession
InvalidateSession(c, token) == CacheDel(c, token)

\* mutant: the refresh assertion is decoded without being verified
RefreshSessionUnverified(c, refreshToken, role, extra, redisOk, t) ==
    IF ~redisOk
    THEN [ok |-> FALSE, error |-> "Invalid refresh token", session |-> Null, cache |-> c]
    ELSE LET s == CreateSession(c, refreshToken.userId, role, extra, t)
         IN  [ok |-> TRUE, error |-> "", session |-> s, cache |-> s.cache]

\* sessionManager.refreshSession: the new session, or the error it throws;
\* a createSession that fails inside the try is rethrown as the same error
RefreshSession(c, refreshToken, role, extra, redisOk, t) ==
    IF ~JwtVerify(refreshToken, "JWT_REFRESH_SECRET", t) \/ ~redisOk
    THEN [ok |-> FALSE, error |-> "Invalid refresh token", session |-> Null, cache |-> c]
    ELSE LET s == CreateSession(c, refreshToken.userId, role, extra, t)
         IN  [ok |-> TRUE, error |-> "", session |-> s, cache |-> s.cache]

----------------------------------------------------------------------------
(* Bearer middleware and authorization *)

\* mutant: the principal is looked up without AND is_active = true
FindUserAnyStatus(us, id) ==
    IF id \in DOMAIN us THEN [id |-> id, role |-> us[id].role] ELSE Null

\* SELECT id, ..., role, ... FROM users WHERE id = $1 AND is_active = true
FindActiveUser(us, id) ==
    IF id \in DOMAIN us /\ us[id].is_active
    THEN [id |-> id, role |-> us[id].role]
    ELSE Null

\* mutant: the role cached in the session record is preferred to the row's
RequestUserSessionRole(row, sessionData) ==
    [id |-> row.id,
     role |-> IF "role" \in DOMAIN sessionData THEN sessionData.role ELSE row.role]

\* req.user = { id: user.id, ..., role: user.role, ... }, built from the users row
RequestUser(row, sessionData) == [id |-> row.id, role |-> row.role]

\* return res.status(401).json(...): one response, next is not called
Reject401(sessionData) ==
    [status |-> "401", user |-> Null, session |-> sessionData,
     responses |-> 1, nextCalls |-> 0, thrown |-> FALSE]

\* authenticateToken: "next" with req.user attached, or the 401 it answers;
\* a query that throws is answered by the catch block
AuthenticateToken(c, us, token, redisOk, dbOk, t) ==
    IF token = Null
    THEN Reject401(Null)
    ELSE LET sessionData == ValidateSession(c, token, redisOk, t)
         IN  IF sessionData = Null
             THEN Reject401(Null)
             ELSE IF ~dbOk
             THEN Reject401(sessionData)
             ELSE IF ~("userId" \in DOMAIN sessionData)
                     \/ FindActiveUser(us, sessionData.userId) = Null
             THEN Reject401(sessionData)
             ELSE [status |-> "next",
                   user |-> RequestUser(FindActiveUser(us, sessionData.userId), sessionData),
                   session |-> sessionData,
                   responses |-> 0, nextCalls |-> 1, thrown |-> FALSE]

\* isManager
IsManager(user) == user # Null /\ user.role = "manager"

\* isAdmin
IsAdmin(user) == user # Null /\ user.role = "admin"

\* isAdminOrManager
IsAdminOrManager(user) == user # Null /\ (user.role = "admin" \/ user.role = "manager")

\* obj.name of a request object; a field that is not there reads as undefined
Field(obj, name) == IF name \in DOMAIN obj THEN obj[name] ELSE "undefined"

\* a || b on request fields: undefined and the empty string are falsy
OrElse(a, b) == IF a \in {"undefined", ""} THEN b ELSE a

\* the number NaN, equal to nothing
NaN == [nan |-> TRUE, val |-> 0]

\* Number.parseInt of a request field: its decimal digit, else NaN
ParseInt(str) ==
    IF \E n \in 0..9 : ToString(n) = str
    THEN [nan |-> FALSE, val |-> CHOOSE n \in 0..9 : ToString(n) = str]
    ELSE NaN

\* id === number
StrictEquals(id, number) == ~number.nan /\ number.val = id

\* isResourceOwner: the id is read from req.params.userId || req.body.userId
IsResourceOwner(user, params, body) ==
    LET resourceUserId == ParseInt(OrElse(Field(params, "userId"), Field(body, "userId")))
    IN  user # Null /\ (StrictEquals(user.id, resourceUserId) \/ user.role = "admin")

----------------------------------------------------------------------------
(* Refresh ledger: the refresh_tokens table *)

\* INSERT INTO refresh_tokens (user_id, token, expires_at)
InsertRefresh(rows, userId, token, t) ==
    rows \cup {[token |-> token, user_id |-> userId, expires_at |-> t + RefreshTtl]}

\* DELETE FROM refresh_tokens WHERE token = $1
DeleteRefresh(rows, token) == {r \in rows : r.token # token}

\* mutant: the row is not matched against the presented token
FindValidRefreshAnyToken(rows, token, t) == {r \in rows : r.expires_at > t}

\* token VARCHAR(255) NOT NULL UNIQUE: an INSERT of a token the table holds throws
UniqueViolation(rows, token) == \E r \in rows : r.token = token

\* mutant: the sweep deletes every row that expires within the next seven days
SweepRowsEarly(rows, t) == {r \in rows : ~(r.expires_at < t + RefreshTtl)}

\* DELETE FROM <table> WHERE expires_at < NOW(): the rows that stay
SweepRows(rows, t) == {r \in rows : ~(r.expires_at < t)}

\* SELECT * FROM refresh_tokens WHERE token = $1 AND expires_at > NOW()
FindValidRefresh(rows, token, t) == {r \in rows : r.token = token /\ r.expires_at > t}

----------------------------------------------------------------------------
(* Rate limiter: createRateLimiter over the Redis key rl:login:<ip>.       *)
(* The key is Null when absent, else [count, ttl, exp]; ttl = FALSE is a   *)
(* key without expiry.                                                     *)

Clients == 1..NumClients

\* Math.ceil(windowMs / 1000)
CeilSeconds(ms) == (ms + 999) \div 1000

\* the key as Redis shows it at time t
RlLive(k, t) == k # Null /\ (~k.ttl \/ t < k.exp)

\* redisClient.get(key): the stored count, or Null
RlGet(k, t) == IF RlLive(k, t) THEN [val |-> k.count] ELSE Null

\* redisClient.set(key, 1, { EX }): replaces the value and the expiry
RlSetEx(v, ex, t) == [count |-> v, ttl |-> TRUE, exp |-> t + ex]

\* redisClient.incr(key): an absent key is created at 1 without an expiry
RlIncr(k, t) ==
    IF RlLive(k, t)
    THEN [k EXCEPT !.count = @ + 1]
    ELSE [count |-> 1, ttl |-> FALSE, exp |-> 0]

\* TTL of the key: the seconds it has left, or none for a key without expiry
RlTtl(k, t) ==
    IF k # Null /\ k.ttl THEN [finite |-> TRUE, secs |-> k.exp - t] ELSE [finite |-> FALSE, secs |-> 0]

\* mutant: the test lets the count reach max + 1
OverLimitOffByOne(currentCount, max) == currentCount # Null /\ currentCount.val > max

\* the limiter's test on the count it has read
OverLimit(currentCount, max) == currentCount # Null /\ currentCount.val >= max

\* mutant: retryAfter is left in milliseconds
DenyMillis(windowMs) ==
    [status |-> "429", nextCalls |-> 0, retryAfter |-> windowMs, failed |-> FALSE]

\* res.status(429).json({ message, retryAfter })
Deny(windowMs) ==
    [status |-> "429", nextCalls |-> 0, retryAfter |-> CeilSeconds(windowMs), failed |-> FALSE]

\* next() at the end of the try block
PassOn == [status |-> "next", nextCalls |-> 1, retryAfter |-> 0, failed |-> FALSE]

\* mutant: a store error rejects the request
OnStoreErrorClosed == [status |-> "429", nextCalls |-> 0, retryAfter |-> 0, failed |-> TRUE]

\* the catch block: a store error lets the request proceed
OnStoreError == [status |-> "next", nextCalls |-> 1, retryAfter |-> 0, failed |-> TRUE]

\* the write the limiter does for a request it lets through
RlWriteBack(k, currentCount, windowMs, t) ==
    IF currentCount # Null
    THEN RlIncr(k, t)
    ELSE RlSetEx(1, CeilSeconds(windowMs), t)

----------------------------------------------------------------------------
(* Initial state *)

\* the window lengths the observers measure: 5 minutes and 15 minutes
FiveMinutes == 5 * 60
FifteenMinutes == 15 * 60
Windows == {FiveMinutes, FifteenMinutes}

Idle == [pc |-> "idle", currentCount |-> Null, at |-> 0]

NoTtl == [finite |-> FALSE, secs |-> 0]

NoOutcome == [status |-> "none", nextCalls |-> 0, retryAfter |-> 0, failed |-> FALSE,
              ttl |-> NoTtl]

Init ==
    /\ now = 0
    /\ users = SeedUsers
    /\ cache = <<>>
    /\ refresh_tokens = {}
    /\ handed = <<>>
    /\ invalidated = {}
    /\ rl = Null
    /\ req = [p \in Clients |-> Idle]
    /\ last = NoOutcome
    /\ mon = [w \in Windows |-> [open |-> FALSE, start |-> 0, seen |-> 0, passed |-> 0]]
    /\ nreq = 0
    /\ audit_logs = <<>>
    /\ notifications = <<>>
    /\ published = {}
    /\ calls = <<>>
    /\ password_reset_tokens = {}
    /\ api_keys = {}
    /\ apikey = <<>>
    /\ usage = <<>>
    /\ inflight = <<>>

----------------------------------------------------------------------------
(* Requests of the session subsystem.  A request that ends in an early     *)
(* return (401, 403, 500) before its first write leaves the state alone.   *)

\* the tokens a client holds are told apart by what they were signed as: the
\* secret and the lifetime are all that distinguishes one class from another
AccessTokens ==
    {k \in DOMAIN handed : k.secret = "JWT_SECRET" /\ k.exp - k.iat = AccessTtl}

\* the tokens mailed by POST /api/auth/forgot-password
ResetTokens ==
    {k \in DOMAIN handed : k.secret = "JWT_SECRET" /\ k.exp - k.iat = ResetTtl}

\* a token is returned to the client in the response body
Hand(h, token, userId) ==
    [k \in DOMAIN h \cup {token} |-> IF k = token THEN userId ELSE h[k]]

\* POST /api/auth/login, after the rate limiter has passed the request on:
\* what the handler does to the users, session and refresh_tokens stores
LoginSession(u, passwordOk, redisOk) ==
    /\ Cardinality(AccessTokens) < MaxAccess
    /\ IF ~(users[u].is_active /\ users[u].is_approved) \/ ~passwordOk \/ ~redisOk
       THEN UNCHANGED <<cache, refresh_tokens, handed, invalidated>>
       ELSE LET s == CreateSession(cache, u, users[u].role, Profile(u), now)
            IN  /\ cache' = s.cache
                /\ invalidated' = invalidated \ {s.accessToken}
                /\ IF UniqueViolation(refresh_tokens, s.refreshToken)
                   THEN UNCHANGED <<refresh_tokens, handed>>
                   ELSE /\ refresh_tokens' =
                               InsertRefresh(refresh_tokens, u, s.refreshToken, now)
                        /\ handed' =
                               Hand(Hand(handed, s.accessToken, u), s.refreshToken, u)
    /\ UNCHANGED <<now, users>>
    /\ UNCHANGED limiterVars
    /\ UNCHANGED keyVars

\* the login handler where its createAuditLog call is not followed
Login(u, passwordOk, redisOk) ==
    /\ LoginSession(u, passwordOk, redisOk)
    /\ UNCHANGED auditVars

\* POST /api/manager/auth/login
ManagerLogin(u, passwordOk, redisOk) ==
    /\ Cardinality(AccessTokens) < MaxAccess
    /\ IF users[u].role # "manager" \/ ~users[u].is_active \/ ~users[u].is_approved
          \/ ~passwordOk
       THEN UNCHANGED <<cache, refresh_tokens, handed, invalidated>>
       ELSE LET accessToken == JwtSign(u, "manager", "JWT_SECRET", AccessTtl, now)
                refreshToken == JwtSign(u, "manager", "JWT_REFRESH_SECRET", RefreshTtl, now)
            IN  IF UniqueViolation(refresh_tokens, refreshToken)
                THEN UNCHANGED <<cache, refresh_tokens, handed, invalidated>>
                ELSE
                /\ refresh_tokens' = InsertRefresh(refresh_tokens, u, refreshToken, now)
                /\ IF ~redisOk
                   THEN UNCHANGED <<cache, handed, invalidated>>
                   ELSE /\ cache' = CacheSet(cache, accessToken,
                                             [userId |-> u, role |-> "manager"], SessionEx, now)
                        /\ handed' = Hand(Hand(handed, accessToken, u), refreshToken, u)
                        /\ invalidated' = invalidated \ {accessToken}
    /\ UNCHANGED <<now, users>>
    /\ UNCHANGED limiterVars
    /\ UNCHANGED keyVars
    /\ UNCHANGED auditVars

\* POST /api/auth/logout: authenticateToken, then the handler
Logout(token, refreshToken, redisOk) ==
    /\ AuthenticateToken(cache, users, token, TRUE, TRUE, now).status = "next"
    /\ refresh_tokens' = IF refreshToken # Null
                         THEN DeleteRefresh(refresh_tokens, refreshToken)
                         ELSE refresh_tokens
    /\ IF redisOk
       THEN /\ cache' = InvalidateSession(cache, token)
            /\ invalidated' = invalidated \cup {token}
       ELSE UNCHANGED <<cache, invalidated>>
    /\ UNCHANGED <<now, users, handed>>
    /\ UNCHANGED limiterVars
    /\ UNCHANGED keyVars
    /\ UNCHANGED auditVars

\* POST /api/manager/auth/logout: authenticateToken, isManager, then the handler
ManagerLogout(token, refreshToken, redisOk) ==
    /\ AuthenticateToken(cache, users, token, TRUE, TRUE, now).status = "next"
    /\ IsManager(AuthenticateToken(cache, users, token, TRUE, TRUE, now).user)
    /\ IF redisOk
       THEN /\ cache' = CacheDel(cache, token)
            /\ refresh_tokens' = IF refreshToken # Null
                                 THEN DeleteRefresh(refresh_tokens, refreshToken)
                                 ELSE refresh_tokens
            /\ invalidated' = invalidated \cup {token}
       ELSE UNCHANGED <<cache, refresh_tokens, invalidated>>
    /\ UNCHANGED <<now, users, handed>>
    /\ UNCHANGED limiterVars
    /\ UNCHANGED keyVars
    /\ UNCHANGED auditVars

\* POST /api/auth/refresh-token: authenticateRefreshToken, then refreshSession
Refresh(refreshToken, redisOk) ==
    /\ Cardinality(AccessTokens) < MaxAccess
    /\ IF FindValidRefresh(refresh_tokens, refreshToken, now) = {}
       THEN UNCHANGED <<cache, refresh_tokens, handed, invalidated>>
       ELSE IF ~JwtVerify(refreshToken, "JWT_REFRESH_SECRET", now)
       THEN /\ refresh_tokens' = DeleteRefresh(refresh_tokens, refreshToken)
            /\ UNCHANGED <<cache, handed, invalidated>>
       ELSE LET u == refreshToken.userId
            IN  IF ~(users[u].is_active /\ users[u].is_approved)
                THEN UNCHANGED <<cache, refresh_tokens, handed, invalidated>>
                ELSE LET r == RefreshSession(cache, refreshToken, users[u].role,
                                             Profile(u), redisOk, now)
                     IN  IF ~r.ok
                         THEN UNCHANGED <<cache, refresh_tokens, handed, invalidated>>
                         ELSE /\ cache' = r.cache
                              /\ handed' = Hand(handed, r.session.accessToken, u)
                              /\ invalidated' = invalidated \ {r.session.accessToken}
                              /\ UNCHANGED refresh_tokens
    /\ UNCHANGED <<now, users>>
    /\ UNCHANGED limiterVars
    /\ UNCHANGED keyVars
    /\ UNCHANGED auditVars

\* POST /api/manager/auth/refresh-token; the catch around jwt.verify also
\* encloses the Redis set, so a set that fails deletes the row as well
ManagerRefresh(refreshToken, redisOk) ==
    /\ Cardinality(AccessTokens) < MaxAccess
    /\ IF FindValidRefresh(refresh_tokens, refreshToken, now) = {}
       THEN UNCHANGED <<cache, refresh_tokens, handed, invalidated>>
       ELSE IF ~JwtVerify(refreshToken, "JWT_REFRESH_SECRET", now)
       THEN /\ refresh_tokens' = DeleteRefresh(refresh_tokens, refreshToken)
            /\ UNCHANGED <<cache, handed, invalidated>>
       ELSE LET u == refreshToken.userId
            IN  IF ~(users[u].role = "manager" /\ users[u].is_active /\ users[u].is_approved)
                THEN UNCHANGED <<cache, refresh_tokens, handed, invalidated>>
                ELSE IF ~redisOk
                THEN /\ refresh_tokens' = DeleteRefresh(refresh_tokens, refreshToken)
                     /\ UNCHANGED <<cache, handed, invalidated>>
                ELSE LET accessToken == JwtSign(u, "manager", "JWT_SECRET", AccessTtl, now)
                     IN  /\ cache' = CacheSet(cache, accessToken,
                                              [userId |-> u, role |-> "manager"], SessionEx, now)
                         /\ handed' = Hand(handed, accessToken, u)
                         /\ invalidated' = invalidated \ {accessToken}
                         /\ UNCHANGED refresh_tokens
    /\ UNCHANGED <<now, users>>
    /\ UNCHANGED limiterVars
    /\ UNCHANGED keyVars
    /\ UNCHANGED auditVars

\* JSON.stringify({ userId: decoded.userId, role: decoded.role }): an undefined role is left out
SocketRecord(token) ==
    IF token.role = NoRole
    THEN [userId |-> token.userId]
    ELSE [userId |-> token.userId, role |-> token.role]

\* the session key socketAuthMiddleware writes after a cache miss
SocketRecache(c, token, t) == CacheSet(c, token, SocketRecord(token), SessionEx, t)

\* socketAuthMiddleware: TRUE when the handshake ends in next() without an
\* error, that is on a cache hit, or on a miss with a token that verifies
SocketAuthAccepts(c, token, redisOk, t) ==
    /\ token # Null
    /\ redisOk
    /\ (CacheGet(c, token, t) # Null \/ JwtVerify(token, "JWT_SECRET", t))

\* io.use gate of server.js: TRUE when the handshake ends in next() without
\* an error, that is when the session key is in the cache
IoUseAccepts(c, token, redisOk, t) ==
    /\ token # Null
    /\ redisOk
    /\ CacheGet(c, token, t) # Null

\* socketAuthMiddleware: the handshake gate
SocketAuth(token, redisOk) ==
    /\ IF token = Null \/ ~redisOk
       THEN UNCHANGED cache
       ELSE IF CacheGet(cache, token, now) # Null
       THEN UNCHANGED cache
       ELSE IF JwtVerify(token, "JWT_SECRET", now)
       THEN cache' = SocketRecache(cache, token, now)
       ELSE UNCHANGED cache
    /\ UNCHANGED <<now, users, refresh_tokens, handed, invalidated>>
    /\ UNCHANGED limiterVars
    /\ UNCHANGED keyVars
    /\ UNCHANGED auditVars

\* time passes; Redis drops the session keys whose expiry has been reached
Tick ==
    /\ now + TickStep <= MaxClock
    /\ now' = now + TickStep
    /\ cache' = CachePurge(cache, now + TickStep)
    /\ UNCHANGED <<users, refresh_tokens, handed, invalidated>>
    /\ UNCHANGED limiterVars
    /\ UNCHANGED keyVars
    /\ UNCHANGED auditVars

\* what a client can put in a request: a token it was given, or nothing
Presented == DOMAIN handed \cup {Null}

Next ==
    \/ \E u \in UserIds, pw \in BOOLEAN, ok \in BOOLEAN : Login(u, pw, ok)
    \/ \E u \in UserIds, pw \in BOOLEAN, ok \in BOOLEAN : ManagerLogin(u, pw, ok)
    \/ \E tk \in Presented, rt \in Presented, ok \in BOOLEAN : Logout(tk, rt, ok)
    \/ \E tk \in Presented, rt \in Presented, ok \in BOOLEAN : ManagerLogout(tk, rt, ok)
    \/ \E rt \in DOMAIN handed, ok \in BOOLEAN : Refresh(rt, ok)
    \/ \E rt \in DOMAIN handed, ok \in BOOLEAN : ManagerRefresh(rt, ok)
    \/ \E tk \in Presented, ok \in BOOLEAN : SocketAuth(tk, ok)
    \/ Tick

Spec == Init /\ [][Next]_vars

----------------------------------------------------------------------------
(* The refresh ledger over days: the same login, logout and refresh        *)
(* requests, with a clock that runs past the seven days of a refresh token *)

\* days pass; every session key has expired long before the step ends
DayTick ==
    /\ now + DayStep <= MaxDayClock
    /\ now' = now + DayStep
    /\ cache' = CachePurge(cache, now + DayStep)
    /\ UNCHANGED <<users, refresh_tokens, handed, invalidated>>
    /\ UNCHANGED limiterVars
    /\ UNCHANGED keyVars
    /\ UNCHANGED auditVars

\* the hourly cleanup job; a DELETE that fails is logged and nothing changes
Sweep(dbOk) ==
    /\ refresh_tokens' = IF dbOk THEN SweepRows(refresh_tokens, now) ELSE refresh_tokens
    /\ password_reset_tokens' = IF dbOk THEN SweepRows(password_reset_tokens, now)
                                 ELSE password_reset_tokens
    /\ api_keys' = IF dbOk THEN SweepRows(api_keys, now) ELSE api_keys
    /\ UNCHANGED <<now, users, cache, handed, invalidated>>
    /\ UNCHANGED limiterVars
    /\ UNCHANGED <<apikey, usage, inflight>>
    /\ UNCHANGED auditVars

LedgerNext ==
    \/ \E u \in UserIds, pw \in BOOLEAN, ok \in BOOLEAN : Login(u, pw, ok)
    \/ \E u \in UserIds, pw \in BOOLEAN, ok \in BOOLEAN : ManagerLogin(u, pw, ok)
    \/ \E tk \in Presented, rt \in Presented, ok \in BOOLEAN : Logout(tk, rt, ok)
    \/ \E tk \in Presented, rt \in Presented, ok \in BOOLEAN : ManagerLogout(tk, rt, ok)
    \/ \E rt \in DOMAIN handed, ok \in BOOLEAN : Refresh(rt, ok)
    \/ \E rt \in DOMAIN handed, ok \in BOOLEAN : ManagerRefresh(rt, ok)
    \/ \E ok \in BOOLEAN : Sweep(ok)
    \/ DayTick

LedgerSpec == Init /\ [][LedgerNext]_vars

----------------------------------------------------------------------------
(* User administration: the admin routes that change a users row, next to  *)
(* the logins and logouts of the principals they change.  A request that   *)
(* authenticateToken or isAdmin turns away does not reach the handler.     *)

\* the :id of a request; 0 is the id of no user
TargetIds == UserIds \cup {0}

\* req.body.role as a client may send it
RoleInputs == {"admin", "manager", "user", "root"}

\* requests to GET /api/users/:id and PUT /api/users/:id, the routes behind
\* isResourceOwner: the route parameter is named id; userId is a body field
\* the client may send
OwnerRequests ==
    {[params |-> [id |-> ToString(i)], body |-> b] :
        i \in UserIds, b \in {<<>>} \cup {[userId |-> ToString(j)] : j \in UserIds}}

\* the user whose row the handler behind isResourceOwner reads or updates:
\* const { id } = req.params ... WHERE id = $1
ResourceOf(q) == ParseInt(q.params.id).val

\* PATCH /api/users/:id/role: authenticateToken, isAdmin, then the handler
ChangeRole(token, id, role) ==
    /\ AuthenticateToken(cache, users, token, TRUE, TRUE, now).status = "next"
    /\ IsAdmin(AuthenticateToken(cache, users, token, TRUE, TRUE, now).user)
    /\ IF role \notin {"admin", "manager", "user"} \/ id \notin DOMAIN users
       THEN UNCHANGED users
       ELSE users' = [users EXCEPT ![id].role = role]
    /\ UNCHANGED <<now, cache, refresh_tokens, handed, invalidated>>
    /\ UNCHANGED limiterVars
    /\ UNCHANGED keyVars
    /\ UNCHANGED auditVars

\* PATCH /api/users/:id/status: authenticateToken, isAdmin, then the handler
SetStatus(token, id, isActive) ==
    /\ AuthenticateToken(cache, users, token, TRUE, TRUE, now).status = "next"
    /\ IsAdmin(AuthenticateToken(cache, users, token, TRUE, TRUE, now).user)
    /\ IF id \notin DOMAIN users
       THEN UNCHANGED users
       ELSE users' = [users EXCEPT ![id].is_active = isActive]
    /\ UNCHANGED <<now, cache, refresh_tokens, handed, invalidated>>
    /\ UNCHANGED limiterVars
    /\ UNCHANGED keyVars
    /\ UNCHANGED auditVars

AdminNext ==
    \/ \E u \in UserIds, pw \in BOOLEAN, ok \in BOOLEAN : Login(u, pw, ok)
    \/ \E u \in UserIds, pw \in BOOLEAN, ok \in BOOLEAN : ManagerLogin(u, pw, ok)
    \/ \E tk \in Presented, rt \in Presented, ok \in BOOLEAN : Logout(tk, rt, ok)
    \/ \E tk \in Presented, id \in TargetIds, role \in RoleInputs : ChangeRole(tk, id, role)
    \/ \E tk \in Presented, id \in TargetIds, isActive \in BOOLEAN : SetStatus(tk, id, isActive)

AdminSpec == Init /\ [][AdminNext]_vars

----------------------------------------------------------------------------
(* Audit pipeline: createAuditLog (utils/auditLogger.js) and the handlers  *)
(* that call it without awaiting it.  A call is a sequence of awaits:      *)
(* the INSERT, then for a significant action LPUSH, LTRIM and PUBLISH;     *)
(* calls of different requests interleave at these awaits.                 *)

\* significantActions
SignificantActions ==
    {"LOGIN_FAILED", "MFA_FAILED", "UNAUTHORIZED_ACCESS", "USER_ROLE_CHANGED",
     "USER_APPROVED", "USER_DEACTIVATED", "ITEM_REJECTED", "SECURITY_ALERT"}

\* significantActions.includes(action)
Significant(action) == action \in SignificantActions

\* the row INSERT INTO audit_logs (action, user_id, details, ip_address) writes
AuditRow(call) == [action |-> call.action, user_id |-> call.userId, details |-> call.details]

\* mutant: the payload is numbered by the caller instead of RETURNING id
NotificationLocalId(id, call) ==
    [id |-> id + 1, action |-> call.action, userId |-> call.userId, details |-> call.details]

\* JSON.stringify({ id: result.rows[0].id, action, userId, details, timestamp })
Notification(id, call) ==
    [id |-> id, action |-> call.action, userId |-> call.userId, details |-> call.details]

\* LPUSH key value
Lpush(list, value) == <<value>> \o list

\* LTRIM key start stop, for 0 <= start <= stop
Ltrim(list, start, stop) ==
    SubSeq(list, start + 1, IF stop + 1 < Len(list) THEN stop + 1 ELSE Len(list))

\* mutant: the catch block rethrows
OnAuditErrorRethrow == [result |-> Null, raised |-> TRUE]

\* catch (error) { console.error(...); return null }
OnAuditError == [result |-> Null, raised |-> FALSE]

\* createAuditLog({ action, userId, details }) invoked by a handler that has
\* answered, or answers in the same turn, with caller.status: the call runs
\* up to its first await, the INSERT
NewCall(action, userId, details, caller) ==
    [pc |-> "insert", action |-> action, userId |-> userId, details |-> details,
     id |-> 0, result |-> Null, raised |-> FALSE, caller |-> caller]

\* return result.rows[0].id
Return(call) == [call EXCEPT !.pc = "returned", !.result = [val |-> call.id]]

\* an await of the call rejects: the catch block
Fail(call) ==
    [call EXCEPT !.pc = "returned", !.result = OnAuditError.result,
                 !.raised = OnAuditError.raised]

\* await pool.query("INSERT INTO audit_logs ... RETURNING id")
AuditInsert(i, ok) ==
    /\ calls[i].pc = "insert"
    /\ IF ok
       THEN LET inserted == [calls[i] EXCEPT !.id = Len(audit_logs) + 1]
            IN  /\ audit_logs' = Append(audit_logs, AuditRow(calls[i]))
                /\ calls' = [calls EXCEPT ![i] =
                                 IF Significant(inserted.action)
                                 THEN [inserted EXCEPT !.pc = "lpush"]
                                 ELSE Return(inserted)]
       ELSE /\ calls' = [calls EXCEPT ![i] = Fail(@)]
            /\ UNCHANGED audit_logs
    /\ UNCHANGED <<notifications, published>>
    /\ UNCHANGED <<now, sessionVars, limiterVars, keyVars>>

\* await redisClient.lpush("admin:notifications", ...)
AuditPush(i, ok) ==
    /\ calls[i].pc = "lpush"
    /\ IF ok
       THEN /\ notifications' = Lpush(notifications, Notification(calls[i].id, calls[i]))
            /\ calls' = [calls EXCEPT ![i].pc = "ltrim"]
       ELSE /\ calls' = [calls EXCEPT ![i] = Fail(@)]
            /\ UNCHANGED notifications
    /\ UNCHANGED <<audit_logs, published>>
    /\ UNCHANGED <<now, sessionVars, limiterVars, keyVars>>

\* await redisClient.ltrim("admin:notifications", 0, 99)
AuditTrim(i, ok) ==
    /\ calls[i].pc = "ltrim"
    /\ IF ok
       THEN /\ notifications' = Ltrim(notifications, 0, TrimStop)
            /\ calls' = [calls EXCEPT ![i].pc = "publish"]
       ELSE /\ calls' = [calls EXCEPT ![i] = Fail(@)]
            /\ UNCHANGED notifications
    /\ UNCHANGED <<audit_logs, published>>
    /\ UNCHANGED <<now, sessionVars, limiterVars, keyVars>>

\* await redisClient.publish("admin:notifications", ...), then the return
AuditPublish(i, ok) ==
    /\ calls[i].pc = "publish"
    /\ IF ok
       THEN /\ published' = published \cup {Notification(calls[i].id, calls[i])}
            /\ calls' = [calls EXCEPT ![i] = Return(@)]
       ELSE /\ calls' = [calls EXCEPT ![i] = Fail(@)]
            /\ UNCHANGED published
    /\ UNCHANGED <<audit_logs, notifications>>
    /\ UNCHANGED <<now, sessionVars, limiterVars, keyVars>>

\* the server process dies: the calls in flight are never resumed
Crash ==
    /\ \E i \in DOMAIN calls : calls[i].pc \notin {"returned", "crashed"}
    /\ calls' = [i \in DOMAIN calls |->
                     IF calls[i].pc \in {"returned", "crashed"}
                     THEN calls[i]
                     ELSE [calls[i] EXCEPT !.pc = "crashed"]]
    /\ UNCHANGED <<audit_logs, notifications, published>>
    /\ UNCHANGED <<now, sessionVars, limiterVars, keyVars>>

\* the handler that called, as the client saw it
Caller(by, status, endpoint, user) ==
    [by |-> by, status |-> status, endpoint |-> endpoint,
     userId |-> user.id, role |-> user.role]

\* POST /api/auth/login with the audit event of each of its outcomes
AuditedLogin(u, passwordOk, redisOk) ==
    /\ Len(calls) < MaxCalls
    /\ LoginSession(u, passwordOk, redisOk)
    /\ LET user == [id |-> u, role |-> users[u].role]
       IN  IF ~(users[u].is_active /\ users[u].is_approved)
           THEN calls' = Append(calls,
                    NewCall("FAILED_LOGIN", u,
                            [reason |-> IF ~users[u].is_active THEN "User inactive"
                                        ELSE "User not approved"],
                            Caller("login", "401", "/api/auth/login", user)))
           ELSE IF ~passwordOk
           THEN calls' = Append(calls,
                    NewCall("FAILED_LOGIN", u, [reason |-> "Invalid password"],
                            Caller("login", "401", "/api/auth/login", user)))
           ELSE IF ~redisOk
           THEN UNCHANGED calls
           ELSE calls' = Append(calls,
                    NewCall("LOGIN", u, <<>>,
                            Caller("login", "200", "/api/auth/login", user)))
    /\ UNCHANGED <<audit_logs, notifications, published>>

\* requests to the routes behind the four authorization predicates
GateRequests ==
    {[gate |-> "isAdmin", endpoint |-> "/api/users/2/role",
      params |-> [id |-> "2"], body |-> [role |-> "admin"]],
     [gate |-> "isManager", endpoint |-> "/api/manager/notifications",
      params |-> <<>>, body |-> <<>>],
     [gate |-> "isAdminOrManager", endpoint |-> "/api/dashboard/summary",
      params |-> <<>>, body |-> <<>>],
     [gate |-> "isResourceOwner", endpoint |-> "/api/users/1",
      params |-> [id |-> "1"], body |-> <<>>]}

\* the predicate of a gate applied to req.user and the request
Passes(q, user) ==
    CASE q.gate = "isAdmin" -> IsAdmin(user)
      [] q.gate = "isManager" -> IsManager(user)
      [] q.gate = "isAdminOrManager" -> IsAdminOrManager(user)
      [] q.gate = "isResourceOwner" -> IsResourceOwner(user, q.params, q.body)

\* requiredRole of the details each role predicate logs
RequiredRole(gate) ==
    CASE gate = "isAdmin" -> "admin"
      [] gate = "isManager" -> "manager"
      [] gate = "isAdminOrManager" -> "admin or manager"

\* mutant: the details are logged without the endpoint
DenialDetailsNoEndpoint(q, user) ==
    IF q.gate = "isResourceOwner"
    THEN [requiredUserId |->
              ParseInt(OrElse(Field(q.params, "userId"), Field(q.body, "userId")))]
    ELSE [requiredRole |-> RequiredRole(q.gate), userRole |-> user.role]

\* details of the UNAUTHORIZED_ACCESS event a predicate logs
DenialDetails(q, user) ==
    IF q.gate = "isResourceOwner"
    THEN [requiredUserId |->
              ParseInt(OrElse(Field(q.params, "userId"), Field(q.body, "userId"))),
          endpoint |-> q.endpoint]
    ELSE [requiredRole |-> RequiredRole(q.gate), userRole |-> user.role,
          endpoint |-> q.endpoint]

\* a request that authenticateToken passes on and the predicate of its route
\* denies: createAuditLog is called and not awaited, then 403 is returned
Forbidden(token, q) ==
    /\ Len(calls) < MaxCalls
    /\ AuthenticateToken(cache, users, token, TRUE, TRUE, now).status = "next"
    /\ LET user == AuthenticateToken(cache, users, token, TRUE, TRUE, now).user
       IN  /\ ~Passes(q, user)
           /\ calls' = Append(calls,
                  NewCall("UNAUTHORIZED_ACCESS", user.id, DenialDetails(q, user),
                          Caller(q.gate, "403", q.endpoint, user)))
    /\ UNCHANGED <<audit_logs, notifications, published>>
    /\ UNCHANGED <<now, sessionVars, limiterVars, keyVars>>

\* an event recorded before the run
PastEvent == [action |-> "SECURITY_ALERT", userId |-> 0, details |-> <<>>]

\* the session of the seeded manager after its POST /api/auth/login
ManagerSession == CreateSession(<<>>, 2, SeedRole(2), Profile(2), 0)

\* a deployment that has recorded Prefill significant events, all trimmed and
\* published, and in which the seeded manager has just logged in
AuditInit ==
    /\ now = 0
    /\ users = SeedUsers
    /\ cache = ManagerSession.cache
    /\ refresh_tokens = InsertRefresh({}, 2, ManagerSession.refreshToken, 0)
    /\ handed = Hand(Hand(<<>>, ManagerSession.accessToken, 2),
                      ManagerSession.refreshToken, 2)
    /\ invalidated = {}
    /\ rl = Null
    /\ req = [p \in Clients |-> Idle]
    /\ last = NoOutcome
    /\ mon = [w \in Windows |-> [open |-> FALSE, start |-> 0, seen |-> 0, passed |-> 0]]
    /\ nreq = 0
    /\ audit_logs = [i \in 1..Prefill |-> AuditRow(PastEvent)]
    /\ notifications = [i \in 1..Prefill |->
                            [id |-> Prefill + 1 - i, action |-> PastEvent.action,
                             userId |-> PastEvent.userId, details |-> PastEvent.details]]
    /\ published = {}
    /\ calls = <<>>
    /\ password_reset_tokens = {}
    /\ api_keys = {}
    /\ apikey = <<>>
    /\ usage = <<>>
    /\ inflight = <<>>

AuditNext ==
    \/ \E u \in UserIds, pw \in BOOLEAN, ok \in BOOLEAN : AuditedLogin(u, pw, ok)
    \/ \E tk \in Presented, q \in GateRequests : Forbidden(tk, q)
    \/ \E i \in DOMAIN calls, ok \in BOOLEAN : AuditInsert(i, ok)
    \/ \E i \in DOMAIN calls, ok \in BOOLEAN : AuditPush(i, ok)
    \/ \E i \in DOMAIN calls, ok \in BOOLEAN : AuditTrim(i, ok)
    \/ \E i \in DOMAIN calls, ok \in BOOLEAN : AuditPublish(i, ok)
    \/ Crash

AuditSpec == AuditInit /\ [][AuditNext]_vars

----------------------------------------------------------------------------
(* Requests through loginRateLimiter, all from one client address.  The    *)
(* observers in mon count the requests of each fixed window, a window      *)
(* being opened by the first request that arrives after the previous one   *)
(* has run out.                                                            *)

\* the observer of window length w after a request has arrived at time t
Observe(m, w, t) ==
    IF m.open /\ t < m.start + w
    THEN [m EXCEPT !.seen = @ + 1]
    ELSE [open |-> TRUE, start |-> t, seen |-> 1, passed |-> 0]

\* the observer after a request that arrived at time at has been let through
Passed(m, w, at) ==
    IF w = FiveMinutes /\ m.open /\ m.start <= at /\ at < m.start + w
    THEN [m EXCEPT !.passed = @ + 1]
    ELSE m

\* what the client observes, with the counter's TTL at the moment of a denial
Outcome(o, ttl) ==
    [status |-> o.status, nextCalls |-> o.nextCalls, retryAfter |-> o.retryAfter,
     failed |-> o.failed, ttl |-> IF o.status = "429" THEN ttl ELSE NoTtl]

\* lines 19-31: the request arrives, the count is read and tested
RlArrive(p, getOk) ==
    /\ req[p].pc = "idle"
    /\ nreq < MaxRequests
    /\ nreq' = nreq + 1
    /\ LET m == [w \in Windows |-> Observe(mon[w], w, now)]
           currentCount == RlGet(rl, now)
       IN  IF ~getOk
           THEN /\ last' = Outcome(OnStoreError, RlTtl(rl, now))
                /\ mon' = m
                /\ UNCHANGED req
           ELSE IF OverLimit(currentCount, LoginMax)
           THEN /\ last' = Outcome(Deny(LoginWindowMs), RlTtl(rl, now))
                /\ mon' = m
                /\ UNCHANGED req
           ELSE /\ req' = [req EXCEPT ![p] =
                              [pc |-> "got", currentCount |-> currentCount, at |-> now]]
                /\ mon' = m
                /\ UNCHANGED last
    /\ UNCHANGED <<rl, now>>
    /\ UNCHANGED sessionVars
    /\ UNCHANGED keyVars
    /\ UNCHANGED auditVars

\* lines 33-47: the count is written back and the request is passed on
RlWrite(p, writeOk) ==
    /\ req[p].pc = "got"
    /\ IF ~writeOk
       THEN /\ last' = Outcome(OnStoreError, RlTtl(rl, now))
            /\ UNCHANGED <<rl, mon>>
       ELSE /\ rl' = RlWriteBack(rl, req[p].currentCount, LoginWindowMs, now)
            /\ mon' = [w \in Windows |-> Passed(mon[w], w, req[p].at)]
            /\ last' = Outcome(PassOn, RlTtl(rl, now))
    /\ req' = [req EXCEPT ![p] = Idle]
    /\ UNCHANGED <<now, nreq>>
    /\ UNCHANGED sessionVars
    /\ UNCHANGED keyVars
    /\ UNCHANGED auditVars

\* time passes; Redis drops the counter when its expiry has been reached
RlTick ==
    /\ now + RlTickStep <= RlMaxClock
    /\ now' = now + RlTickStep
    /\ rl' = IF RlLive(rl, now + RlTickStep) THEN rl ELSE Null
    /\ UNCHANGED <<req, last, mon, nreq>>
    /\ UNCHANGED sessionVars
    /\ UNCHANGED keyVars
    /\ UNCHANGED auditVars

LimiterNext ==
    \/ \E p \in Clients, ok \in BOOLEAN : RlArrive(p, ok)
    \/ \E p \in Clients, ok \in BOOLEAN : RlWrite(p, ok)
    \/ RlTick

\* any interleaving of concurrent requests, store failures and expiry
LimiterSpec == Init /\ [][LimiterNext]_vars

AllIdle == \A p \in Clients : req[p].pc = "idle"

SeqNext ==
    \/ \E p \in Clients : AllIdle /\ RlArrive(p, TRUE)
    \/ \E p \in Clients : RlWrite(p, TRUE)
    \/ AllIdle /\ RlTick

\* one request after the other, each run to its end, over a working store
SeqSpec == Init /\ [][SeqNext]_vars

----------------------------------------------------------------------------
(* Properties of the session subsystem, checked under Spec *)

\* what validateSession returns for a token when the cache can be read
Validated(tk) == ValidateSession(cache, tk, TRUE, now)

\* C1: a session that has been created and neither invalidated nor expired
\* validates to a non-null record whose userId is the principal it was
\* created for.
C1_CreateThenValidate ==
    \A tk \in AccessTokens :
        (tk \notin invalidated /\ now < tk.exp) =>
            /\ Validated(tk) # Null
            /\ "userId" \in DOMAIN Validated(tk)
            /\ Validated(tk).userId = handed[tk]

\* C1 witness: a live createSession token whose full record is served from the cache
C1_Witness ==
    \E tk \in AccessTokens :
        /\ tk.role = NoRole /\ tk \notin invalidated /\ now < tk.exp
        /\ CacheGet(cache, tk, now) # Null
        /\ Validated(tk) = SessionRecord(handed[tk], users[handed[tk]].role, Profile(handed[tk]))

\* C2: after its session has been invalidated, a token validates to null or
\* to the degraded record that holds the principal id alone.
C2_InvalidatedNeverFull ==
    \A tk \in invalidated :
        Validated(tk) = Null \/ DOMAIN Validated(tk) = {"userId"}

\* C3: once its session has been invalidated, no request bearing the token
\* is passed on by authenticateToken.
C3_InvalidatedNeverAuthenticated ==
    \A tk \in invalidated :
        AuthenticateToken(cache, users, tk, TRUE, TRUE, now).status # "next"

\* C4: no session key expires later than the access token it is keyed by,
\* and validateSession returns null for a token 15 minutes after its issue.
C4_RecordNeverOutlivesAssertion ==
    /\ \A tk \in DOMAIN cache : cache[tk].exp <= tk.exp
    /\ \A tk \in AccessTokens : now >= tk.iat + AccessTtl => Validated(tk) = Null

----------------------------------------------------------------------------
(* Properties of the rate limiter *)

\* C5 (LimiterSpec): of the requests that arrive in one window, at most max
\* are let through by a limiter whose store works.
C5_AtMostMaxPerWindow == mon[FiveMinutes].passed <= LoginMax

\* the request that has just ended, in a run of requests taken one at a time
Settled == AllIdle /\ last.status # "none"

\* C6 (SeqSpec): with max = 5, requests 1 to 5 of a window are let through,
\* every later one of that window is answered 429 with retryAfter > 0, and
\* the first request after the window has run out is let through again.
C6_FixedWindowSequence ==
    Settled =>
        /\ mon[FiveMinutes].seen <= LoginMax => last.status = "next"
        /\ mon[FiveMinutes].seen > LoginMax =>
               last.status = "429" /\ last.retryAfter > 0

\* C6 witness: a window saw a denial, ran out, and the next request opened a
\* new window and was let through
C6_Witness ==
    /\ Settled
    /\ nreq > LoginMax + 1
    /\ mon[FiveMinutes].start > 0 /\ mon[FiveMinutes].seen = 1
    /\ last.status = "next"

\* C7 (LimiterSpec): a counter key that exists has an expiry, no further
\* away than one window.
C7_CounterAlwaysExpires ==
    rl # Null => rl.ttl /\ rl.exp <= now + CeilSeconds(LoginWindowMs)

\* C8 as claimed (SeqSpec): the 6th and later login attempts made within 15
\* minutes of the first are rejected before the login handler runs.
C8_Login15MinuteWindow ==
    Settled /\ mon[FifteenMinutes].seen > LoginMax =>
        last.status = "429" /\ last.nextCalls = 0

\* C8 as amended (SeqSpec): the 6th and later login attempts made within 5
\* minutes of the first are rejected before the login handler runs.
C8_Login5MinuteWindow ==
    Settled /\ mon[FiveMinutes].seen > LoginMax =>
        last.status = "429" /\ last.nextCalls = 0

\* C8 witness: a 6th attempt made later in the same 5-minute window is rejected
C8_Witness ==
    /\ Settled
    /\ mon[FiveMinutes].seen > LoginMax
    /\ now > mon[FiveMinutes].start
    /\ last.status = "429" /\ last.nextCalls = 0

\* C9 (LimiterSpec): a request during which a store operation failed is
\* passed on exactly once and is not answered 429.
C9_FailOpen == last.failed => last.status = "next" /\ last.nextCalls = 1

\* C9 witness: a store failure lets a request through while the counter is at max
C9_Witness ==
    /\ last.failed /\ last.status = "next"
    /\ OverLimit(RlGet(rl, now), LoginMax)

\* C10 as claimed (LimiterSpec): the retryAfter of a denial is the time the
\* counter has left to live.
C10_RetryAfterIsRemainingTtl ==
    last.status = "429" => last.ttl.finite /\ last.retryAfter = last.ttl.secs

\* C10 as amended (LimiterSpec): the retryAfter of a denial is the length of
\* the configured window in seconds, whatever the counter has left to live.
C10_RetryAfterIsWindow ==
    last.status = "429" => last.retryAfter = CeilSeconds(LoginWindowMs)

\* C10 witness: a denial whose counter has less than the reported time left
C10_Witness ==
    /\ last.status = "429"
    /\ last.ttl.finite /\ last.ttl.secs < last.retryAfter

----------------------------------------------------------------------------
(* Properties of the refresh ledger, checked under LedgerSpec *)

\* the refresh assertions that clients hold
RefreshTokens == {k \in DOMAIN handed : k.secret = "JWT_REFRESH_SECRET"}

\* C11: refreshSession on a refresh assertion whose embedded expiry has
\* passed fails with "Invalid refresh token" and leaves the session cache as
\* it was, whether or not the refresh_tokens row of the assertion still exists.
C11_ExpiredRefreshFails ==
    \A rt \in RefreshTokens, ok \in BOOLEAN :
        now >= rt.exp =>
            LET r == RefreshSession(cache, rt, users[rt.userId].role,
                                    Profile(rt.userId), ok, now)
            IN  /\ ~r.ok
                /\ r.error = "Invalid refresh token"
                /\ r.session = Null
                /\ r.cache = cache

\* C11 witness: two expired refresh assertions are held, one whose row is
\* still in the table and one whose row was deleted at logout
C11_Witness ==
    /\ \E rt \in RefreshTokens :
           now >= rt.exp /\ \E r \in refresh_tokens : r.token = rt
    /\ \E rt \in RefreshTokens :
           now >= rt.exp /\ ~\E r \in refresh_tokens : r.token = rt

\* a step that stores a session key or hands out a token
Minted == cache' # cache \/ handed' # handed

----------------------------------------------------------------------------
(* Properties of the bearer middleware and the authorization predicates,   *)
(* checked under AdminSpec                                                 *)

\* C13: authenticateToken passes a request on only if a token is present,
\* validateSession returns a record for it and the users row of the principal
\* is found with is_active = true at that moment; in every other case, a
\* failing session or users lookup included, it answers 401 once, does not
\* call next and does not throw.  A principal deactivated after login is
\* rejected on its next request.
C13_PassOnlyActivePrincipal ==
    \A tk \in Presented, redisOk \in BOOLEAN, dbOk \in BOOLEAN :
        LET o == AuthenticateToken(cache, users, tk, redisOk, dbOk, now)
            sessionData == ValidateSession(cache, tk, redisOk, now)
        IN  /\ o.status = "next" =>
                  /\ tk # Null /\ sessionData # Null /\ dbOk
                  /\ users[handed[tk]].is_active
                  /\ o.user.id = handed[tk]
                  /\ o.nextCalls = 1 /\ o.responses = 0
            /\ o.status # "next" =>
                  /\ o.status = "401" /\ o.responses = 1
                  /\ o.nextCalls = 0 /\ ~o.thrown

\* C13 witness: a token whose session still validates is presented by a
\* principal that was deactivated after the login, and is answered 401
C13_Witness ==
    \E tk \in AccessTokens :
        /\ CacheGet(cache, tk, now) # Null
        /\ ~users[handed[tk]].is_active
        /\ AuthenticateToken(cache, users, tk, TRUE, TRUE, now).status = "401"

\* C14: the role attached to an authenticated request is the role of the
\* principal's users row at the time of the request, whatever role the full
\* or degraded session record holds, and the role predicates decide on it.
C14_RoleIsCurrentRole ==
    \A tk \in Presented, redisOk \in BOOLEAN :
        LET o == AuthenticateToken(cache, users, tk, redisOk, TRUE, now)
        IN  o.status = "next" =>
                /\ o.user.role = users[handed[tk]].role
                /\ IsAdmin(o.user) = (users[handed[tk]].role = "admin")
                /\ IsManager(o.user) = (users[handed[tk]].role = "manager")

\* C14 witness: a principal whose role was changed after login authenticates
\* with a session record that still holds the old role, and another such
\* principal with the degraded record that holds no role
C14_Witness ==
    /\ \E tk \in AccessTokens :
           LET o == AuthenticateToken(cache, users, tk, TRUE, TRUE, now)
           IN  /\ o.status = "next"
               /\ "role" \in DOMAIN o.session
               /\ o.session.role # users[handed[tk]].role
               /\ o.user.role = users[handed[tk]].role
    /\ \E tk \in AccessTokens :
           LET o == AuthenticateToken(cache, users, tk, TRUE, TRUE, now)
           IN  /\ o.status = "next"
               /\ DOMAIN o.session = {"userId"}
               /\ users[handed[tk]].role # SeedRole(handed[tk])

\* C15: isAdmin and isManager pass exactly the principals whose role is the
\* required one, isAdminOrManager exactly admins and managers, and
\* isResourceOwner exactly the principal whose id is the user id of the
\* requested resource, and admins.
C15_PredicatesGrantAsSpecified ==
    \A tk \in Presented :
        LET o == AuthenticateToken(cache, users, tk, TRUE, TRUE, now)
        IN  o.status = "next" =>
                /\ IsAdmin(o.user) = (o.user.role = "admin")
                /\ IsManager(o.user) = (o.user.role = "manager")
                /\ IsAdminOrManager(o.user) = (o.user.role \in {"admin", "manager"})
                /\ \A q \in OwnerRequests :
                       IsResourceOwner(o.user, q.params, q.body)
                           = (o.user.id = ResourceOf(q) \/ o.user.role = "admin")

----------------------------------------------------------------------------
(* Properties of the audit pipeline, checked under AuditSpec *)

\* the calls made by an authorization predicate that has answered 403
Denials == {i \in DOMAIN calls : calls[i].caller.status = "403"}

\* the audit_logs row of a call that has passed its INSERT
RowOf(call) == audit_logs[call.id]

\* C16 as claimed: once a predicate has answered 403, the UNAUTHORIZED_ACCESS
\* event of that denial has been written, and it carries the required role,
\* the actual role and the endpoint.
C16_EventWrittenBefore403 ==
    \A i \in Denials :
        /\ calls[i].id \in DOMAIN audit_logs
        /\ RowOf(calls[i]).action = "UNAUTHORIZED_ACCESS"
        /\ {"requiredRole", "userRole", "endpoint"} \subseteq DOMAIN calls[i].details

\* C16: a predicate that denies hands one UNAUTHORIZED_ACCESS event for the
\* principal to createAuditLog before it answers 403; the event carries the
\* endpoint and, from the role predicates, the required and the actual role,
\* from isResourceOwner the user id it compared with; the call is not
\* awaited, and a row it writes later is that event.
C16_DenialSubmitsEvent ==
    \A i \in Denials :
        LET call == calls[i]
        IN  /\ call.action = "UNAUTHORIZED_ACCESS"
            /\ call.userId = call.caller.userId
            /\ "endpoint" \in DOMAIN call.details
            /\ call.details.endpoint = call.caller.endpoint
            /\ IF call.caller.by = "isResourceOwner"
               THEN DOMAIN call.details = {"requiredUserId", "endpoint"}
               ELSE /\ DOMAIN call.details = {"requiredRole", "userRole", "endpoint"}
                    /\ call.details.requiredRole = RequiredRole(call.caller.by)
                    /\ call.details.userRole = call.caller.role
            /\ call.pc = "insert" => call.id \notin DOMAIN audit_logs
            /\ call.id \in DOMAIN audit_logs => RowOf(call) = AuditRow(call)

\* C16 witness: a role predicate and isResourceOwner have both answered 403
\* while the INSERT of their event is still pending
C16_Witness ==
    /\ \E i \in Denials : calls[i].caller.by = "isAdmin" /\ calls[i].pc = "insert"
    /\ \E i \in Denials : calls[i].caller.by = "isResourceOwner" /\ calls[i].pc = "insert"

\* the outcome each caller gives when nothing goes wrong in the audit call
NormalStatus(by) == IF by = "login" THEN {"200", "401"} ELSE {"403"}

\* C17: createAuditLog never raises; when its INSERT fails it returns null,
\* and the handler that called it has given its own normal outcome.
C17_NeverRaises ==
    \A i \in DOMAIN calls :
        /\ ~calls[i].raised
        /\ (calls[i].pc = "returned" /\ calls[i].id = 0) => calls[i].result = Null
        /\ calls[i].caller.status \in NormalStatus(calls[i].caller.by)

\* C17 witness: the INSERT of a denial's event and of a login's event has
\* failed and the call has returned null
C17_Witness ==
    /\ \E i \in Denials :
           calls[i].pc = "returned" /\ calls[i].id = 0 /\ calls[i].result = Null
    /\ \E i \in DOMAIN calls :
           /\ calls[i].caller.by = "login"
           /\ calls[i].pc = "returned" /\ calls[i].id = 0 /\ calls[i].result = Null

\* C18: the list admin:notifications holds at most 100 entries in every
\* reachable state.
C18_AtMostHundred == Len(notifications) <= TrimStop + 1

\* C19: a call that has returned returned null exactly if it wrote no
\* audit_logs row.
C19_NullMeansNoRow ==
    \A i \in DOMAIN calls :
        calls[i].pc = "returned" =>
            ((calls[i].result = Null) <=> (calls[i].id \notin DOMAIN audit_logs))

\* the audit_logs row with the id of a notification holds the same event
HasRow(e) ==
    /\ e.id \in DOMAIN audit_logs
    /\ audit_logs[e.id] = [action |-> e.action, user_id |-> e.userId, details |-> e.details]

FailedLogins ==
    {i \in DOMAIN calls : calls[i].caller.by = "login" /\ calls[i].caller.status = "401"}

\* C21: the event of every failed login whose audit_logs row was written and
\* whose call has returned with its id was pushed onto the list
\* admin:notifications and published on the channel.
C21_FailedLoginNotified ==
    \A i \in FailedLogins :
        (calls[i].pc = "returned" /\ calls[i].id \in DOMAIN audit_logs
         /\ calls[i].result # Null) =>
            Notification(calls[i].id, calls[i]) \in published

----------------------------------------------------------------------------
(* Properties of the socket handshake and of the token classes, checked    *)
(* under Spec                                                              *)

\* C22: each of the two handshake gates accepts a token exactly when
\* validateSession returns a record for it.
C22_HandshakeIsValidateSession ==
    \A tk \in Presented, redisOk \in BOOLEAN :
        LET valid == tk # Null /\ ValidateSession(cache, tk, redisOk, now) # Null
        IN  /\ SocketAuthAccepts(cache, tk, redisOk, now) = valid
            /\ IoUseAccepts(cache, tk, redisOk, now) = valid

\* C23: validateSession returns null for every refresh assertion, so
\* authenticateToken answers it 401, and refreshSession fails for every
\* access assertion.
C23_SecretClassesApart ==
    /\ \A rt \in RefreshTokens, redisOk \in BOOLEAN :
           /\ ValidateSession(cache, rt, redisOk, now) = Null
           /\ AuthenticateToken(cache, users, rt, redisOk, TRUE, now).status = "401"
    /\ \A tk \in AccessTokens, redisOk \in BOOLEAN :
           LET r == RefreshSession(cache, tk, users[tk.userId].role,
                                   Profile(tk.userId), redisOk, now)
           IN  ~r.ok /\ r.cache = cache

\* C23 witness: a client holds a refresh assertion and an access assertion
\* that are both unexpired, and the access assertion's session is cached
C23_Witness ==
    /\ \E rt \in RefreshTokens : JwtVerify(rt, "JWT_REFRESH_SECRET", now)
    /\ \E tk \in AccessTokens :
           JwtVerify(tk, "JWT_SECRET", now) /\ CacheGet(cache, tk, now) # Null

----------------------------------------------------------------------------
(* Further properties of the refresh ledger, checked under LedgerSpec *)

\* a logout request of either logout route
LogoutStep ==
    \E tk \in Presented, rt \in Presented, ok \in BOOLEAN :
        Logout(tk, rt, ok) \/ ManagerLogout(tk, rt, ok)

\* C24: a refresh request that mints an access assertion leaves the
\* refresh_tokens table as it was, and a row leaves the table only in a
\* logout request or in the expiry sweep.
C24_RowsLeaveByLogoutOrSweep ==
    [][/\ \A rt \in DOMAIN handed, ok \in BOOLEAN :
              ((Refresh(rt, ok) \/ ManagerRefresh(rt, ok)) /\ Minted) =>
                  refresh_tokens' = refresh_tokens
       /\ (refresh_tokens \ refresh_tokens' # {}) =>
              (LogoutStep \/ \E ok \in BOOLEAN : Sweep(ok))]_vars

\* C25: the expiry sweep removes only rows whose expires_at is in the past,
\* none of which the refresh check would honor, so the check answers the same
\* before and after it for every token; sweeping a swept table changes nothing.
C25_SweepOnlyExpired ==
    LET swept == SweepRows(refresh_tokens, now)
    IN  /\ \A r \in refresh_tokens \ swept :
               r.expires_at < now /\ FindValidRefresh(refresh_tokens, r.token, now) = {}
        /\ \A tk \in DOMAIN handed :
               FindValidRefresh(swept, tk, now) = FindValidRefresh(refresh_tokens, tk, now)
        /\ SweepRows(swept, now) = swept

\* C25 witness: the table holds a row past its expiry, which the sweep
\* removes, next to a row the refresh check honors, which it keeps
C25_Witness ==
    /\ \E r \in refresh_tokens : r.expires_at < now
    /\ \E r \in refresh_tokens : FindValidRefresh(refresh_tokens, r.token, now) # {}
    /\ SweepRows(refresh_tokens, now) \notin {refresh_tokens, {}}

----------------------------------------------------------------------------
(* Password reset: the forgot-password handler signs its token with the    *)
(* secret of the access assertions and mails it to the account's address.  *)

\* INSERT INTO password_reset_tokens (user_id, token, expires_at); the stored
\* bcrypt hash stands for the token it was computed from
InsertReset(rows, userId, token, t) ==
    rows \cup {[id |-> Cardinality(rows) + 1, user_id |-> userId, token |-> token,
                expires_at |-> t + ResetTtl]}

\* POST /api/auth/forgot-password
ForgotPassword(u, dbOk, mailOk) ==
    /\ Cardinality(password_reset_tokens) < MaxResets
    /\ IF ~dbOk \/ ~users[u].is_active
       THEN UNCHANGED <<password_reset_tokens, handed>>
       ELSE LET resetToken == JwtSign(u, NoRole, "JWT_SECRET", ResetTtl, now)
            IN  /\ password_reset_tokens' =
                       InsertReset(password_reset_tokens, u, resetToken, now)
                /\ handed' = IF mailOk THEN Hand(handed, resetToken, u) ELSE handed
    /\ UNCHANGED <<now, users, cache, refresh_tokens, invalidated>>
    /\ UNCHANGED limiterVars
    /\ UNCHANGED <<api_keys, apikey, usage, inflight>>
    /\ UNCHANGED auditVars

ResetNext ==
    \/ \E u \in UserIds, pw \in BOOLEAN, ok \in BOOLEAN : Login(u, pw, ok)
    \/ \E tk \in Presented, rt \in Presented, ok \in BOOLEAN : Logout(tk, rt, ok)
    \/ \E u \in UserIds, ok \in BOOLEAN, mail \in BOOLEAN : ForgotPassword(u, ok, mail)
    \/ Tick

ResetSpec == Init /\ [][ResetNext]_vars

\* C26: only tokens issued as access assertions are honored as bearer
\* credentials: every token validateSession accepts was minted as an access
\* assertion, and a password-reset token is refused by validateSession and
\* answered 401 by authenticateToken
C26_OnlyAccessAssertionsHonored ==
    \A tk \in DOMAIN handed, redisOk \in BOOLEAN :
        /\ ValidateSession(cache, tk, redisOk, now) # Null => tk \in AccessTokens
        /\ tk \in ResetTokens =>
               /\ ValidateSession(cache, tk, redisOk, now) = Null
               /\ AuthenticateToken(cache, users, tk, redisOk, TRUE, now).status = "401"

----------------------------------------------------------------------------
\* the status POST /api/auth/login answers with: 401 for a wrong password or
\* an account that may not log in, 500 when createSession or the INSERT of
\* the refresh row throws, 200 with the pair of tokens otherwise
LoginStatus(rows, us, u, passwordOk, redisOk, t) ==
    IF ~(us[u].is_active /\ us[u].is_approved) \/ ~passwordOk THEN "401"
    ELSE IF ~redisOk THEN "500"
    ELSE IF UniqueViolation(rows, JwtSign(u, NoRole, "JWT_REFRESH_SECRET", RefreshTtl, t))
         THEN "500"
    ELSE "200"

\* the principals for whom a login has stored a refresh row in this clock second
LoggedInNow == {u \in UserIds : \E r \in refresh_tokens : r.user_id = u /\ r.token.iat = now}

\* C27: sessions are independent: a second login of a principal, also one in
\* the clock second of the first, succeeds and receives an access and a
\* refresh assertion that no earlier session holds
C27_SameSecondLoginsIndependent ==
    \A u \in LoggedInNow :
        (users[u].is_active /\ users[u].is_approved) =>
            LET s == CreateSession(cache, u, users[u].role, Profile(u), now)
            IN  /\ LoginStatus(refresh_tokens, users, u, TRUE, TRUE, now) = "200"
                /\ s.accessToken \notin DOMAIN handed
                /\ s.refreshToken \notin DOMAIN handed

----------------------------------------------------------------------------
(* The refresh request as the event loop runs it: the row check of         *)
(* authenticateRefreshToken, its users query and the createSession of the  *)
(* handler are three awaits, and other requests run between them.          *)

Request(op, pc, token, row) ==
    [op |-> op, pc |-> pc, token |-> token, row |-> row, session |-> Null,
     isActive |-> TRUE]

Advance(i, pc, row, session) ==
    [inflight EXCEPT ![i] = [@ EXCEPT !.pc = pc, !.row = row, !.session = session]]

\* authenticateRefreshToken up to its first await: the row check; without a
\* row that is still valid the request is answered 401 and is over
RefreshCheck(refreshToken) ==
    /\ Len(inflight) < MaxInflight
    /\ Cardinality(AccessTokens) < MaxAccess
    /\ inflight' = IF FindValidRefresh(refresh_tokens, refreshToken, now) = {}
                   THEN inflight
                   ELSE Append(inflight, Request("refresh", "checked", refreshToken, Null))
    /\ UNCHANGED <<now, sessionVars, limiterVars, auditVars>>
    /\ UNCHANGED <<password_reset_tokens, api_keys, apikey, usage>>

\* authenticateRefreshToken after the row check: jwt.verify and the users query
RefreshAuthenticate(i) ==
    /\ inflight[i].op = "refresh" /\ inflight[i].pc = "checked"
    /\ LET refreshToken == inflight[i].token
       IN  IF ~JwtVerify(refreshToken, "JWT_REFRESH_SECRET", now)
           THEN /\ refresh_tokens' = DeleteRefresh(refresh_tokens, refreshToken)
                /\ inflight' = Advance(i, "401", Null, Null)
           ELSE LET u == refreshToken.userId
                IN  /\ UNCHANGED refresh_tokens
                    /\ inflight' =
                           IF users[u].is_active /\ users[u].is_approved
                           THEN Advance(i, "authenticated", FindActiveUser(users, u), Null)
                           ELSE Advance(i, "401", Null, Null)
    /\ UNCHANGED <<now, users, cache, handed, invalidated>>
    /\ UNCHANGED <<limiterVars, auditVars>>
    /\ UNCHANGED <<password_reset_tokens, api_keys, apikey, usage>>

\* the handler of POST /api/auth/refresh-token: refreshSession and the response
RefreshMint(i, redisOk) ==
    /\ inflight[i].op = "refresh" /\ inflight[i].pc = "authenticated"
    /\ LET u == inflight[i].row.id
           r == RefreshSession(cache, inflight[i].token, inflight[i].row.role,
                               Profile(u), redisOk, now)
       IN  IF ~r.ok
           THEN /\ inflight' = Advance(i, "500", inflight[i].row, Null)
                /\ UNCHANGED <<cache, handed, invalidated>>
           ELSE /\ cache' = r.cache
                /\ handed' = Hand(handed, r.session.accessToken, u)
                /\ invalidated' = invalidated \ {r.session.accessToken}
                /\ inflight' = Advance(i, "200", inflight[i].row, r.session.accessToken)
    /\ UNCHANGED <<now, users, refresh_tokens>>
    /\ UNCHANGED <<limiterVars, auditVars>>
    /\ UNCHANGED <<password_reset_tokens, api_keys, apikey, usage>>

RaceNext ==
    \/ \E u \in UserIds, pw \in BOOLEAN, ok \in BOOLEAN : Login(u, pw, ok)
    \/ \E tk \in Presented, rt \in Presented, ok \in BOOLEAN : Logout(tk, rt, ok)
    \/ \E rt \in DOMAIN handed : RefreshCheck(rt)
    \/ \E i \in DOMAIN inflight : RefreshAuthenticate(i)
    \/ \E i \in DOMAIN inflight, ok \in BOOLEAN : RefreshMint(i, ok)
    \/ Tick

RaceSpec == Init /\ [][RaceNext]_vars

\* the refresh requests that take their last step: createSession stores a
\* Session Record that is live after the step
Minting == {i \in DOMAIN inflight : /\ inflight[i].pc = "authenticated"
                                    /\ inflight'[i].pc = "200"
                                    /\ CacheGet(cache', inflight'[i].session, now') # Null}

\* C28: logout revokes the refresh capability also for a refresh in flight:
\* a refresh request that passed the row check creates no live Session
\* Record once a logout has deleted the row of its refresh token
C28_NoSessionAfterLogout ==
    [][\A i \in Minting :
           FindValidRefresh(refresh_tokens, inflight[i].token, now) # {}]_vars

----------------------------------------------------------------------------
\* C29: validateSession never throws: for every token and whether or not the
\* cache store answers, it returns a record or null; when the cache read
\* fails it returns null without the signature-only fallback, and
\* authenticateToken answers that request with one 401 and no next()
C29_ValidateSessionNeverThrows ==
    \A tk \in DOMAIN handed, redisOk \in BOOLEAN, dbOk \in BOOLEAN :
        LET v == ValidateSession(cache, tk, redisOk, now)
            a == AuthenticateToken(cache, users, tk, redisOk, dbOk, now)
        IN  /\ v = Null \/ "userId" \in DOMAIN v
            /\ ~a.thrown
            /\ ~redisOk => /\ v = Null
                           /\ a.status = "401"
                           /\ a.responses = 1 /\ a.nextCalls = 0

\* a token whose signature is valid and whose Session Record is cached meets
\* a cache read that fails
C29_Witness ==
    \E tk \in AccessTokens :
        /\ JwtVerify(tk, "JWT_SECRET", now)
        /\ CacheGet(cache, tk, now) # Null
        /\ ValidateSession(cache, tk, FALSE, now) = Null
        /\ AuthenticateToken(cache, users, tk, FALSE, TRUE, now).status = "401"

----------------------------------------------------------------------------
(* API keys: the management routes (routes/apiKeys.js) and the apiKeyAuth  *)
(* middleware, each taken through its awaits one step at a time.           *)

\* crypto.randomBytes(32).toString("hex"): one of the strings not drawn before
KeyStrings == {"k1", "k2"}

Requests(ops) == {i \in DOMAIN inflight : inflight[i].op \in ops}

KeysDrawn == {inflight[i].token : i \in Requests({"create"})}

\* SELECT * FROM api_keys WHERE key = $1 AND expires_at > NOW()
FindKey(rows, key, t) == {r \in rows : r.key = key /\ r.expires_at > t}

\* SELECT * FROM api_keys WHERE id = $1 AND (user_id = $2 OR $3 = true)
FindOwnedKey(rows, id, user) ==
    {r \in rows : r.id = id /\ (r.user_id = user.id \/ user.role = "admin")}

\* the JSON stored under apikey:<key>
KeyData(row) == [id |-> row.id, userId |-> row.user_id, isActive |-> row.is_active]

\* hincrby(`apikey:usage:${apiKey}`, "count", 1): a hash that is not there
\* is created, without an expiry
UsageIncr(us, key, t) ==
    [k \in DOMAIN us \cup {key} |->
        IF k # key THEN us[k]
        ELSE IF key \in DOMAIN us /\ (us[key].persist \/ t < us[key].exp)
             THEN [us[key] EXCEPT !.count = @ + 1]
             ELSE [count |-> 1, persist |-> TRUE, exp |-> 0]]

\* hset(`apikey:usage:${apiKey}`, "count", 1) and expire(..., 86400)
UsageReset(us, key, t) ==
    [k \in DOMAIN us \cup {key} |->
        IF k # key THEN us[k] ELSE [count |-> 1, persist |-> FALSE, exp |-> t + UsageEx]]

\* what apiKeyAuth answers to a request that runs from its first await to
\* its last with no other request in between and every store answering
KeyAuthStatus(c, rows, key, t) ==
    IF CacheGet(c, key, t) # Null
    THEN IF CacheGet(c, key, t).isActive THEN "next" ELSE "401"
    ELSE IF FindKey(rows, key, t) = {} THEN "401"
    ELSE IF \E r \in FindKey(rows, key, t) : ~r.is_active THEN "401"
    ELSE "next"

\* POST /api/api-keys, behind authenticateToken
CreateKey(token, key) ==
    /\ Cardinality(Requests({"create"})) < MaxKeys
    /\ key \notin KeysDrawn
    /\ LET a == AuthenticateToken(cache, users, token, TRUE, TRUE, now)
       IN  /\ a.status = "next"
           /\ LET row == [id |-> Cardinality(Requests({"create"})) + 1,
                          user_id |-> a.user.id, key |-> key, is_active |-> TRUE,
                          used |-> FALSE, expires_at |-> now + ApiKeyTtl]
              IN  /\ api_keys' = api_keys \cup {row}
                  /\ inflight' = Append(inflight, Request("create", "201", key, row))
    /\ UNCHANGED <<now, sessionVars, limiterVars, auditVars>>
    /\ UNCHANGED <<password_reset_tokens, apikey, usage>>

KeyRequestStarts == Cardinality(Requests({"apikey", "patch", "delete"})) < MaxKeyRequests

\* apiKeyAuth up to its first await: the cache lookup, and on a hit the
\* usage counter and next()
KeyAuthGet(key, redisOk) ==
    /\ KeyRequestStarts
    /\ LET hit == CacheGet(apikey, key, now)
       IN  IF ~redisOk
           THEN /\ inflight' = Append(inflight, Request("apikey", "500", key, Null))
                /\ UNCHANGED usage
           ELSE IF hit = Null
           THEN /\ inflight' = Append(inflight, Request("apikey", "missed", key, Null))
                /\ UNCHANGED usage
           ELSE IF ~hit.isActive
           THEN /\ inflight' = Append(inflight, Request("apikey", "401", key, Null))
                /\ UNCHANGED usage
           ELSE /\ inflight' = Append(inflight, Request("apikey", "next", key, hit))
                /\ usage' = UsageIncr(usage, key, now)
    /\ UNCHANGED <<now, sessionVars, limiterVars, auditVars>>
    /\ UNCHANGED <<password_reset_tokens, api_keys, apikey>>

\* apiKeyAuth after a miss: the row is read from api_keys
KeyAuthSelect(i, dbOk) ==
    /\ inflight[i].op = "apikey" /\ inflight[i].pc = "missed"
    /\ LET found == FindKey(api_keys, inflight[i].token, now)
       IN  inflight' =
               IF ~dbOk THEN Advance(i, "500", Null, Null)
               ELSE IF found = {} THEN Advance(i, "401", Null, Null)
               ELSE LET row == CHOOSE r \in found : TRUE
                    IN  IF ~row.is_active
                        THEN Advance(i, "401", row, Null)
                        ELSE Advance(i, "read", row, Null)
    /\ UNCHANGED <<now, sessionVars, limiterVars, auditVars>>
    /\ UNCHANGED <<password_reset_tokens, api_keys, apikey, usage>>

\* apiKeyAuth stores the row it has read under apikey:<key> for an hour and
\* starts the usage counter
KeyAuthSet(i, redisOk) ==
    /\ inflight[i].op = "apikey" /\ inflight[i].pc = "read"
    /\ IF ~redisOk
       THEN /\ inflight' = Advance(i, "500", inflight[i].row, Null)
            /\ UNCHANGED <<apikey, usage>>
       ELSE /\ apikey' = CacheSet(apikey, inflight[i].token, KeyData(inflight[i].row),
                                  ApiKeyEx, now)
            /\ usage' = UsageReset(usage, inflight[i].token, now)
            /\ inflight' = Advance(i, "cached", inflight[i].row, Null)
    /\ UNCHANGED <<now, sessionVars, limiterVars, auditVars>>
    /\ UNCHANGED <<password_reset_tokens, api_keys>>

\* apiKeyAuth ends: UPDATE api_keys SET last_used_at = NOW() WHERE id = $1, next()
KeyAuthTouch(i, dbOk) ==
    /\ inflight[i].op = "apikey" /\ inflight[i].pc = "cached"
    /\ IF ~dbOk
       THEN /\ inflight' = Advance(i, "500", inflight[i].row, Null)
            /\ UNCHANGED api_keys
       ELSE /\ api_keys' = {IF r.id = inflight[i].row.id THEN [r EXCEPT !.used = TRUE] ELSE r
                              : r \in api_keys}
            /\ inflight' = Advance(i, "next", inflight[i].row, Null)
    /\ UNCHANGED <<now, sessionVars, limiterVars, auditVars>>
    /\ UNCHANGED <<password_reset_tokens, apikey, usage>>

\* PATCH /api/api-keys/:id with isActive in the body, DELETE /api/api-keys/:id:
\* authenticateToken and the ownership check
ManageSelect(token, id, op, isActive) ==
    /\ KeyRequestStarts
    /\ LET a == AuthenticateToken(cache, users, token, TRUE, TRUE, now)
       IN  /\ a.status = "next"
           /\ LET found == FindOwnedKey(api_keys, id, a.user)
              IN  inflight' =
                      IF found = {}
                      THEN Append(inflight, Request(op, "404", Null, Null))
                      ELSE LET row == CHOOSE r \in found : TRUE
                           IN  Append(inflight, [Request(op, "selected", row.key, row)
                                                    EXCEPT !.isActive = isActive])
    /\ UNCHANGED <<now, sessionVars, limiterVars, auditVars>>
    /\ UNCHANGED <<password_reset_tokens, api_keys, apikey, usage>>

\* the UPDATE ... SET is_active = COALESCE($3, is_active), or the DELETE
ManageWrite(i, dbOk) ==
    /\ inflight[i].op \in {"patch", "delete"} /\ inflight[i].pc = "selected"
    /\ IF ~dbOk
       THEN /\ inflight' = Advance(i, "500", inflight[i].row, Null)
            /\ UNCHANGED api_keys
       ELSE /\ api_keys' =
                   IF inflight[i].op = "delete"
                   THEN {r \in api_keys : r.id # inflight[i].row.id}
                   ELSE {IF r.id = inflight[i].row.id
                         THEN [r EXCEPT !.is_active = inflight[i].isActive] ELSE r
                           : r \in api_keys}
            /\ inflight' = Advance(i, "written", inflight[i].row, Null)
    /\ UNCHANGED <<now, sessionVars, limiterVars, auditVars>>
    /\ UNCHANGED <<password_reset_tokens, apikey, usage>>

\* redisClient.del(`apikey:${apiKey.key}`) and the 200
ManageClear(i, redisOk) ==
    /\ inflight[i].op \in {"patch", "delete"} /\ inflight[i].pc = "written"
    /\ IF ~redisOk
       THEN /\ inflight' = Advance(i, "500", inflight[i].row, Null)
            /\ UNCHANGED apikey
       ELSE /\ apikey' = CacheDel(apikey, inflight[i].token)
            /\ inflight' = Advance(i, "200", inflight[i].row, Null)
    /\ UNCHANGED <<now, sessionVars, limiterVars, auditVars>>
    /\ UNCHANGED <<password_reset_tokens, api_keys, usage>>

KeyIds == 1..MaxKeys

ApiKeyNext ==
    \/ \E u \in UserIds, pw \in BOOLEAN, ok \in BOOLEAN : Login(u, pw, ok)
    \/ \E tk \in Presented, k \in KeyStrings : CreateKey(tk, k)
    \/ \E k \in KeyStrings, ok \in BOOLEAN : KeyAuthGet(k, ok)
    \/ \E i \in DOMAIN inflight, ok \in BOOLEAN : KeyAuthSelect(i, ok)
    \/ \E i \in DOMAIN inflight, ok \in BOOLEAN : KeyAuthSet(i, ok)
    \/ \E i \in DOMAIN inflight, ok \in BOOLEAN : KeyAuthTouch(i, ok)
    \/ \E tk \in Presented, id \in KeyIds, op \in {"patch", "delete"}, b \in BOOLEAN :
           ManageSelect(tk, id, op, b)
    \/ \E i \in DOMAIN inflight, ok \in BOOLEAN : ManageWrite(i, ok)
    \/ \E i \in DOMAIN inflight, ok \in BOOLEAN : ManageClear(i, ok)

ApiKeySpec == Init /\ [][ApiKeyNext]_vars

\* the keys with no active row left whose deactivation or deletion has
\* cleared the cache entry and answered 200
Revoked ==
    {k \in KeysDrawn :
        /\ \A r \in api_keys : r.key = k => ~r.is_active
        /\ \E i \in Requests({"patch", "delete"}) :
               /\ inflight[i].pc = "200" /\ inflight[i].token = k
               /\ inflight[i].op = "delete" \/ ~inflight[i].isActive}

\* C30: a revoked API key stops working: once a key has been deactivated or
\* deleted and its cache entry cleared, an apiKeyAuth request that presents
\* it is not accepted, whatever in-flight request has run around the revocation
C30_RevokedKeyRejected ==
    \A k \in Revoked : KeyAuthStatus(apikey, api_keys, k, now) # "next"

====
